---- MODULE Spec2Model ----
(***************************************************************************)
(* Cerbo EHR dashboard front end: the axios API client with its request    *)
(* and response interceptors, the appointments page (date navigation,      *)
(* date range, filters, list query) and the patients page (search,         *)
(* pagination, list query with keepPreviousData).                          *)
(*                                                                         *)
(* A JavaScript Date is a timestamp; here it is counted in hours since     *)
(* 2023-11-01T00:00Z (a Wednesday).  Local fields (getDate, getDay,        *)
(* setDate) read it through the zone offset tz, toISOString reads it in    *)
(* UTC.  Daylight-saving changes are not modelled: tz is fixed per run.    *)
(***************************************************************************)
EXTENDS Integers, Sequences, FiniteSets, TLC

VARIABLES
    tz,             \* zone offset in hours, local = UTC + tz
    selectedDate,   \* AppointmentsPage state: the Date, in hours
    viewType,       \* AppointmentsPage state: "day" | "week" | "list"
    lastNav,        \* the last navigateDate call: direction, view, Date before
    authToken,      \* localStorage item 'auth_token', NoToken when absent
    location,       \* window.location.href
    net,            \* the HTTP requests in flight, by slot
    lastReq,        \* the API call just made, NoCall after any other step
    lastResp,       \* the response just handled, NoResp after any other step
    route,          \* the page that is mounted: "/appointments", "/patients", "/"
    statusFilter,   \* AppointmentsPage state
    providerFilter, \* AppointmentsPage state
    searchTerm,     \* PatientsPage state
    searchType,     \* PatientsPage state
    currentPage,    \* PatientsPage state
    cache,          \* the query cache: key -> query state
    prevQueryResult,\* the observer's result for the query it left
    lastStep,       \* what the step just taken did to the queries
    routerId,       \* PatientDetailPage: router.query.id
    detailQ,        \* PatientDetailPage: its six queries, by name
    clock,          \* debounce: the time, in ticks
    timeoutId,      \* debounce: the timeout that is set, NoTimer when none
    calls,          \* debounce: the calls of the debounced function so far
    invoked,        \* debounce: the invocations of the wrapped function so far
    ageNow,         \* calculateAge: the instant of new Date(), in hours
    birthDate,      \* calculateAge: the birth date handed in
    age,            \* calculateAge: the value last returned
    phone,          \* formatPhoneNumber: the string handed in, as characters
    formatted,      \* formatPhoneNumber: the string returned
    apptStatus,     \* an appointment's status as the server sent it
    badge           \* the badge variant each page rendered for it

dateVars == <<tz, selectedDate, viewType, lastNav>>
apiVars == <<authToken, location, net, lastReq, lastResp>>

pageVars == <<route, statusFilter, providerFilter, searchTerm, searchType,
              currentPage, cache, prevQueryResult, lastStep>>

detailVars == <<routerId, detailQ>>
debounceVars == <<clock, timeoutId, calls, invoked>>
ageVars == <<ageNow, birthDate, age>>
phoneVars == <<phone, formatted>>
badgeVars == <<apptStatus, badge>>
utilVars == <<detailVars, debounceVars, ageVars, phoneVars, badgeVars>>

\* what the steps of one component leave alone
notDateVars == <<apiVars, pageVars, utilVars>>
notApiVars == <<dateVars, pageVars, utilVars>>
notDetailVars == <<dateVars, apiVars, pageVars, debounceVars, ageVars, phoneVars,
                   badgeVars>>
notDebounceVars == <<dateVars, apiVars, pageVars, detailVars, ageVars, phoneVars,
                     badgeVars>>
notAgeVars == <<dateVars, apiVars, pageVars, detailVars, debounceVars, phoneVars,
                badgeVars>>
notPhoneVars == <<dateVars, apiVars, pageVars, detailVars, debounceVars, ageVars,
                  badgeVars>>
notBadgeVars == <<dateVars, apiVars, pageVars, detailVars, debounceVars, ageVars,
                  phoneVars>>

vars == <<tz, selectedDate, viewType, lastNav,
          authToken, location, net, lastReq, lastResp,
          route, statusFilter, providerFilter, searchTerm, searchType,
          currentPage, cache, prevQueryResult, lastStep,
          routerId, detailQ, clock, timeoutId, calls, invoked,
          ageNow, birthDate, age, phone, formatted, apptStatus, badge>>

(***************************************************************************)
(* Bounds                                                                  *)
(***************************************************************************)
\* local calendar days (counted from 2023-11-01) the selected date ranges over
FirstDay == 24
LastDay == 130

\* queries the cache holds at a time, and pages of the patient list
MaxCached == 2
MaxPages == 2
MinPage == 0

\* zone offsets and local hours of the day "now" is drawn from
TzOffsets == {-8, 0, 9}
HoursOfDay == {0, 12, 23}

(***************************************************************************)
(* API client: axios instance, interceptors, call groups                   *)
(***************************************************************************)
NoToken == "null"
NoValue == "undefined"
NoToast == "no toast"
NoCall == [fn |-> "none"]
NoResp == [kind |-> "none"]
NoRequest == [fn |-> "none"]

\* values the login flow may leave under 'auth_token'
Tokens == {"", "tokenA", "tokenB"}

\* the API functions exercised, at least one of every call group
ApiFns == {"patientApi.getAll", "patientApi.getById", "appointmentApi.getAll",
           "appointmentApi.checkIn", "appointmentApi.start",
           "appointmentApi.complete", "appointmentApi.markNoShow",
           "providerApi.getAll", "clinicalRecordApi.getPatientAllergies"}

\* the calls that ask the server for a status transition
ActionFns == {"appointmentApi.checkIn", "appointmentApi.start",
              "appointmentApi.complete", "appointmentApi.markNoShow"}

Aggregate(fn) ==
    IF fn \in {"patientApi.getAll", "patientApi.getById"} THEN "patients"
    ELSE IF fn \in {"appointmentApi.getAll"} \cup ActionFns THEN "appointments"
    ELSE IF fn = "providerApi.getAll" THEN "providers"
    ELSE "clinical-records"

\* the pages issue their requests from useQuery, which runs the query function
\* in the browser only: window is defined whenever an interceptor runs
HasWindow == TRUE

\* localStorage.getItem('auth_token') behind the typeof window guard
StoredToken == IF HasWindow THEN authToken ELSE NoToken

\* a string is truthy unless it is empty; null is falsy
Truthy(v) == v \notin {NoToken, NoValue, ""}

RequestInterceptorAlwaysBearer(config) ==
    [config EXCEPT !.Authorization = <<"Bearer", StoredToken>>]

RequestInterceptorBearerOfNull(config) ==
    IF StoredToken # ""
    THEN [config EXCEPT !.Authorization = <<"Bearer", StoredToken>>]
    ELSE config

\* request interceptor: attach the bearer token when one is stored
RequestInterceptor(config) ==
    LET token == StoredToken
    IN  IF Truthy(token)
        THEN [config EXCEPT !.Authorization = <<"Bearer", token>>]
        ELSE config

\* the config axios hands to the interceptor: the instance's defaults
BaseConfig(fn, method) ==
    [fn |-> fn, method |-> method, ContentType |-> "application/json",
     Authorization |-> <<>>]

Method(fn) == IF fn \in ActionFns THEN "POST" ELSE "GET"

\* arguments of a call: the appointment id and the notes of the action calls,
\* NoArgs for the other functions
NoArgs == [id |-> NoValue, notes |-> NoValue]
AppointmentIds == {7, 8}
NotesGiven == {NoValue, "seen"}

ApiArgs(fn) ==
    IF fn = "appointmentApi.complete"
    THEN {[id |-> id, notes |-> n] : id \in AppointmentIds, n \in NotesGiven}
    ELSE IF fn \in ActionFns
    THEN {[id |-> id, notes |-> NoValue] : id \in AppointmentIds}
    ELSE {NoArgs}

\* the path template of a function, the id filled in
Url(fn, args) ==
    IF fn = "appointmentApi.checkIn"
    THEN <<"/api/v1/appointments", args.id, "check-in">>
    ELSE IF fn = "appointmentApi.start"
    THEN <<"/api/v1/appointments", args.id, "start">>
    ELSE IF fn = "appointmentApi.complete"
    THEN <<"/api/v1/appointments", args.id, "complete">>
    ELSE IF fn = "appointmentApi.markNoShow"
    THEN <<"/api/v1/appointments", args.id, "no-show">>
    ELSE <<fn>>

\* the request body: the action calls post none (complete posts null)
Data(fn, args) == IF fn = "appointmentApi.complete" THEN "null" ELSE NoValue

QueryParamsWithStatus(fn, args) ==
    IF fn = "appointmentApi.complete"
    THEN [notes |-> args.notes, status |-> "completed"]
    ELSE <<>>

\* the query parameters: complete passes { notes }, and axios drops a
\* parameter that is undefined
QueryParams(fn, args) ==
    IF fn = "appointmentApi.complete" /\ args.notes # NoValue
    THEN [notes |-> args.notes]
    ELSE <<>>

\* the config an API function hands to axios
Request(fn, args) ==
    [url |-> Url(fn, args), data |-> Data(fn, args),
     params |-> QueryParams(fn, args)] @@ BaseConfig(fn, Method(fn))

ApiRequestsTwice(fn, args) == <<Request(fn, args), Request(fn, args)>>

\* the HTTP requests one invocation of an API function issues: each function
\* body is a single awaited api.get / api.post / api.put / api.delete
ApiRequests(fn, args) == <<Request(fn, args)>>

Slots == 1..2

FreeSlots == {i \in Slots : net[i] = NoRequest}

\* the failed responses and transport errors the adapter may reject with
StatusCodes == {400, 401, 403, 404, 422, 500, 503}
BackendErrors == {NoValue, "", "Patient has appointments"}

ErrorShapes ==
    {[response |-> TRUE, status |-> st,
      code |-> (IF st >= 500 THEN "ERR_BAD_RESPONSE" ELSE "ERR_BAD_REQUEST"),
      dataError |-> de, message |-> "Request failed with status code"] :
        st \in StatusCodes, de \in BackendErrors}
    \cup {[response |-> FALSE, status |-> 0, code |-> "ECONNABORTED",
           dataError |-> NoValue, message |-> "timeout of 30000ms exceeded"],
          [response |-> FALSE, status |-> 0, code |-> "ERR_NETWORK",
           dataError |-> NoValue, message |-> "Network Error"],
          [response |-> FALSE, status |-> 0, code |-> NoValue,
           dataError |-> NoValue, message |-> ""]}

\* error.response?.status, compared as the handler compares it
StatusIs(error, n) == error.response /\ error.status = n
StatusAtLeast(error, n) == error.response /\ error.status >= n

GenericMessage(error) ==
    IF Truthy(error.dataError) THEN error.dataError
    ELSE IF Truthy(error.message) THEN error.message
    ELSE "An error occurred"

ToastForExactly500(error) ==
    IF StatusIs(error, 403) THEN "Access forbidden"
    ELSE IF StatusIs(error, 404) THEN "Resource not found"
    ELSE IF StatusIs(error, 500) THEN "Server error. Please try again later."
    ELSE IF error.code = "ECONNABORTED" THEN "Request timeout. Please try again."
    ELSE GenericMessage(error)

ToastForSilentTimeout(error) ==
    IF StatusIs(error, 403) THEN "Access forbidden"
    ELSE IF StatusIs(error, 404) THEN "Resource not found"
    ELSE IF StatusAtLeast(error, 500) THEN "Server error. Please try again later."
    ELSE IF error.code = "ECONNABORTED" THEN NoToast
    ELSE GenericMessage(error)

\* the branches after the 401 test: the message handed to toast.error
ToastFor(error) ==
    IF StatusIs(error, 403) THEN "Access forbidden"
    ELSE IF StatusIs(error, 404) THEN "Resource not found"
    ELSE IF StatusAtLeast(error, 500) THEN "Server error. Please try again later."
    ELSE IF error.code = "ECONNABORTED" THEN "Request timeout. Please try again."
    ELSE GenericMessage(error)

OnRejectedKeepsToken(error) ==
    IF StatusIs(error, 401)
    THEN [removeToken |-> FALSE, navigate |-> HasWindow, toast |-> NoToast]
    ELSE [removeToken |-> FALSE, navigate |-> FALSE, toast |-> ToastFor(error)]

\* response interceptor, error handler: what it does before re-rejecting
OnRejected(error) ==
    IF StatusIs(error, 401)
    THEN [removeToken |-> HasWindow, navigate |-> HasWindow, toast |-> NoToast]
    ELSE [removeToken |-> FALSE, navigate |-> FALSE, toast |-> ToastFor(error)]

OnRejectedReturnSwallows401(error) ==
    IF StatusIs(error, 401)
    THEN [settled |-> "resolved", reason |-> NoValue]
    ELSE [settled |-> "rejected", reason |-> error]

\* response interceptor, error handler: return Promise.reject(error), after
\* whichever branch was taken
OnRejectedReturn(error) == [settled |-> "rejected", reason |-> error]

\* an API function is invoked: its requests pass the request interceptor and
\* go out
ApiCall(fn) ==
    \E args \in ApiArgs(fn) :
    LET reqs == ApiRequests(fn, args)
        free == FreeSlots
    IN  /\ Cardinality(free) >= Len(reqs)
        /\ \E f \in [1..Len(reqs) -> free] :
              /\ \A i, j \in 1..Len(reqs) : i # j => f[i] # f[j]
              /\ net' = [s \in Slots |->
                            IF \E i \in 1..Len(reqs) : f[i] = s
                            THEN RequestInterceptor(
                                     reqs[CHOOSE i \in 1..Len(reqs) : f[i] = s])
                            ELSE net[s]]
              /\ lastReq' = [fn |-> fn, sent |-> Len(reqs), args |-> args,
                             slots |-> {f[i] : i \in 1..Len(reqs)}]
        /\ lastResp' = NoResp
        /\ UNCHANGED <<authToken, location, notApiVars>>

\* statuses the server may report for an appointment
AppointmentStatuses == {"scheduled", "checked_in", "in_progress", "completed", "no_show"}

\* what the server may answer with a 2xx: the appointment after an action
\* call, a page with one appointment for the appointment list
ResponseBodies(req) ==
    IF req.fn \in ActionFns
    THEN {[id |-> req.url[2], status |-> st] : st \in AppointmentStatuses}
    ELSE IF req.fn = "appointmentApi.getAll"
    THEN {[items |-> <<[id |-> 7, status |-> st]>>] : st \in AppointmentStatuses}
    ELSE {[items |-> <<>>]}

\* the success handler of the response interceptor: (response) => response
OnFulfilled(response) == response

\* what an API function returns: return response.data
ApiReturn(fn, response) == response.data

\* a 2xx response arrives: the interceptor returns it as it is
RespondOk(s) ==
    /\ net[s] # NoRequest
    /\ net' = [net EXCEPT ![s] = NoRequest]
    /\ \E body \in ResponseBodies(net[s]) :
          lastResp' = [kind |-> "ok", fn |-> net[s].fn, settled |-> "resolved",
                       toast |-> NoToast, tokenBefore |-> authToken,
                       body |-> body,
                       returned |-> ApiReturn(net[s].fn,
                                              OnFulfilled([status |-> 200, data |-> body]))]
    /\ lastReq' = NoCall
    /\ UNCHANGED <<authToken, location, notApiVars>>

\* the request fails: the error handler runs and re-rejects the error
RespondError(s, error) ==
    LET did == OnRejected(error)
    IN  /\ net[s] # NoRequest
        /\ net' = [net EXCEPT ![s] = NoRequest]
        /\ authToken' = IF did.removeToken THEN NoToken ELSE authToken
        /\ location' = IF did.navigate THEN "/login" ELSE location
        /\ lastResp' = [kind |-> "error", fn |-> net[s].fn, error |-> error,
                        settled |-> OnRejectedReturn(error).settled,
                        reason |-> OnRejectedReturn(error).reason,
                        toast |-> did.toast, tokenBefore |-> authToken]
        /\ lastReq' = NoCall
        /\ UNCHANGED notApiVars

\* the login flow, outside this client, stores a token and returns to the app
StoreToken(t) ==
    /\ authToken' = t
    /\ location' = "/"
    /\ lastReq' = NoCall
    /\ lastResp' = NoResp
    /\ UNCHANGED <<net, notApiVars>>

ApiIdle ==
    /\ authToken = NoToken
    /\ location = "/"
    /\ net = [s \in Slots |-> NoRequest]
    /\ lastReq = NoCall
    /\ lastResp = NoResp

(***************************************************************************)
(* Calendar                                                                *)
(***************************************************************************)
IsLeap(y) == (y % 4 = 0 /\ y % 100 # 0) \/ y % 400 = 0

DaysInMonth(y, m) ==
    IF m = 2 THEN (IF IsLeap(y) THEN 29 ELSE 28)
    ELSE IF m \in {4, 6, 9, 11} THEN 30 ELSE 31

NextMonth(y, m) == IF m = 12 THEN [y |-> y + 1, m |-> 1] ELSE [y |-> y, m |-> m + 1]
PrevMonth(y, m) == IF m = 1 THEN [y |-> y - 1, m |-> 12] ELSE [y |-> y, m |-> m - 1]

\* days from 2023-11-01 to the first day of month (y, m)
RECURSIVE DaysBefore(_, _)
DaysBefore(y, m) ==
    IF y = 2023 /\ m = 11 THEN 0
    ELSE LET p == PrevMonth(y, m) IN DaysBefore(p.y, p.m) + DaysInMonth(p.y, p.m)

\* the calendar date of day number n >= 0
RECURSIVE CivilWalk(_, _, _)
CivilWalk(y, m, n) ==
    IF n < DaysInMonth(y, m) THEN [y |-> y, m |-> m, d |-> n + 1]
    ELSE LET q == NextMonth(y, m) IN CivilWalk(q.y, q.m, n - DaysInMonth(y, m))

CivilFromDays(n) == CivilWalk(2023, 11, n)

DayNumber(c) == DaysBefore(c.y, c.m) + c.d - 1

(***************************************************************************)
(* Date methods                                                            *)
(***************************************************************************)
LocalDay(t) == (t + tz) \div 24
LocalHour(t) == (t + tz) % 24

\* Date.prototype.getDate: the local day of the month
getDate(t) == CivilFromDays(LocalDay(t)).d

\* Date.prototype.getDay: the local day of the week, 0 = Sunday
getDay(t) == (LocalDay(t) + 3) % 7

setDateClamped(t, n) ==
    LET c == CivilFromDays(LocalDay(t))
        last == DaysInMonth(c.y, c.m)
        day == IF n < 1 THEN 1 ELSE IF n > last THEN last ELSE n
    IN  (DaysBefore(c.y, c.m) + day - 1) * 24 + LocalHour(t) - tz

\* Date.prototype.setDate(n): day n of the Date's own local month, n below 1
\* or past the month's end running into the months before or after; the local
\* time of day is kept
setDate(t, n) ==
    LET c == CivilFromDays(LocalDay(t))
    IN  (DaysBefore(c.y, c.m) + n - 1) * 24 + LocalHour(t) - tz

\* toISOString().split('T')[0]: the calendar date in UTC
toISODate(t) == CivilFromDays(t \div 24)

Now(day, hour) == day * 24 + hour - tz

(***************************************************************************)
(* AppointmentsPage: date range and navigation                             *)
(***************************************************************************)
dateStr == toISODate(selectedDate)

getDateRangeOf(date, view) ==
    IF view = "week"
    THEN LET day == getDay(date)
             diff == getDate(date) - day + (IF day = 0 THEN -6 ELSE 1)
             start == setDate(date, diff)
             end == setDate(date, getDate(start) + 6)
         IN  [start_date |-> toISODate(start), end_date |-> toISODate(end)]
    ELSE LET end == setDate(date, getDate(date))
         IN  [start_date |-> toISODate(date), end_date |-> toISODate(end)]

getDateRange == getDateRangeOf(selectedDate, viewType)

\* the slip of reading the day of the week where the day of the month is meant
newDateFromGetDay(direction) ==
    IF viewType = "day"
    THEN setDate(selectedDate, getDay(selectedDate) + (IF direction = "next" THEN 1 ELSE -1))
    ELSE IF viewType = "week"
    THEN setDate(selectedDate, getDay(selectedDate) + (IF direction = "next" THEN 7 ELSE -7))
    ELSE selectedDate

newDateListStepsToo(direction) ==
    IF viewType = "week"
    THEN setDate(selectedDate, getDate(selectedDate) + (IF direction = "next" THEN 7 ELSE -7))
    ELSE setDate(selectedDate, getDate(selectedDate) + (IF direction = "next" THEN 1 ELSE -1))

newDate(direction) ==
    IF viewType = "day"
    THEN setDate(selectedDate, getDate(selectedDate) + (IF direction = "next" THEN 1 ELSE -1))
    ELSE IF viewType = "week"
    THEN setDate(selectedDate, getDate(selectedDate) + (IF direction = "next" THEN 7 ELSE -7))
    ELSE selectedDate

InDays(t) == LocalDay(t) \in FirstDay..LastDay

Opposite(direction) == IF direction = "next" THEN "prev" ELSE "next"

\* lastNav also tells whether the call undoes the call before it, and the
\* Date before that call
NavigateDate(direction) ==
    /\ InDays(newDate(direction))
    /\ LET back == lastNav.direction = Opposite(direction)
       IN  lastNav' = [direction |-> direction, view |-> viewType,
                       from |-> selectedDate, back |-> back,
                       origin |-> IF back THEN lastNav.from ELSE selectedDate]
    /\ selectedDate' = newDate(direction)
    /\ UNCHANGED <<tz, viewType, notDateVars>>

Today ==
    /\ \E day \in FirstDay..LastDay, hour \in HoursOfDay :
          selectedDate' = Now(day, hour)
    /\ lastNav' = [direction |-> "none", view |-> viewType, from |-> selectedDate']
    /\ UNCHANGED <<tz, viewType, notDateVars>>

SetViewType(v) ==
    /\ viewType' = v
    /\ lastNav' = [direction |-> "none", view |-> v, from |-> selectedDate]
    /\ UNCHANGED <<tz, selectedDate, notDateVars>>

(***************************************************************************)
(* AppointmentCard                                                         *)
(***************************************************************************)
\* the status strings written with capitals that are followed, with their
\* lower-case forms
LowerCased == [SCHEDULED |-> "scheduled", Confirmed |-> "confirmed",
               IN_PROGRESS |-> "in_progress", Checked_In |-> "checked_in",
               No_Show |-> "no_show"]

\* status?.toLowerCase(): undefined stays undefined
toLowerCase(str) == IF str \in DOMAIN LowerCased THEN LowerCased[str] ELSE str

\* AppointmentCard, appointments page
getStatusVariant(status) ==
    LET s == toLowerCase(status)
    IN  IF s = "scheduled" THEN "scheduled"
        ELSE IF s = "confirmed" THEN "confirmed"
        ELSE IF s = "cancelled" THEN "cancelled"
        ELSE IF s = "completed" THEN "completed"
        ELSE IF s \in {"in_progress", "checked_in"} THEN "in-progress"
        ELSE "default"

\* dashboard
getAppointmentStatusVariant(status) ==
    LET s == toLowerCase(status)
    IN  IF s = "scheduled" THEN "scheduled"
        ELSE IF s = "confirmed" THEN "confirmed"
        ELSE IF s = "cancelled" THEN "cancelled"
        ELSE IF s = "completed" THEN "completed"
        ELSE IF s \in {"in_progress", "checked_in"} THEN "in-progress"
        ELSE "default"

getAppointmentStatusVariantOfDetailCaseSensitive(status) ==
    IF status = "scheduled" THEN "scheduled"
    ELSE IF status = "confirmed" THEN "confirmed"
    ELSE IF status = "cancelled" THEN "cancelled"
    ELSE IF status = "completed" THEN "completed"
    ELSE IF status \in {"in_progress", "checked_in"} THEN "in-progress"
    ELSE "default"

\* patient detail page
getAppointmentStatusVariantOfDetail(status) ==
    LET s == toLowerCase(status)
    IN  IF s = "scheduled" THEN "scheduled"
        ELSE IF s = "confirmed" THEN "confirmed"
        ELSE IF s = "cancelled" THEN "cancelled"
        ELSE IF s = "completed" THEN "completed"
        ELSE IF s \in {"in_progress", "checked_in"} THEN "in-progress"
        ELSE "default"

\* the pages that show an appointment's badge
BadgePages == {"dashboard", "detail", "appointments"}

\* the status strings an appointment is followed with
StatusStrings == {"scheduled", "SCHEDULED", "confirmed", "Confirmed", "cancelled",
                  "completed", "in_progress", "IN_PROGRESS", "checked_in",
                  "Checked_In", "no_show", "No_Show", "rescheduled", "pending",
                  NoValue}

NoBadge == "none"

\* <Badge variant={...}> of a page
VariantOn(page, status) ==
    IF page = "dashboard" THEN getAppointmentStatusVariant(status)
    ELSE IF page = "detail" THEN getAppointmentStatusVariantOfDetail(status)
    ELSE getStatusVariant(status)

\* a page renders the appointment
RenderBadge(page) ==
    /\ badge[page] = NoBadge
    /\ badge' = [badge EXCEPT ![page] = VariantOn(page, apptStatus)]
    /\ UNCHANGED <<apptStatus, notBadgeVars>>

\* the server reports another status: the pages have not rendered it yet
StatusChanges(status) ==
    /\ status # apptStatus
    /\ apptStatus' = status
    /\ badge' = [page \in BadgePages |-> NoBadge]
    /\ UNCHANGED notBadgeVars

BadgeIdle ==
    /\ apptStatus = "scheduled"
    /\ badge = [page \in BadgePages |-> NoBadge]

\* status.replace('_', ' '): the first underscore becomes a blank
ReplaceUnderscore(status) ==
    IF status = "checked_in" THEN "checked in"
    ELSE IF status = "in_progress" THEN "in progress"
    ELSE IF status = "no_show" THEN "no show"
    ELSE status

\* the status badge of the card: its variant and its text
AppointmentCard(appointment) ==
    [variant |-> getStatusVariant(appointment.status),
     text |-> ReplaceUnderscore(appointment.status)]

(***************************************************************************)
(* Query cache (@tanstack/react-query useQuery) behind the list pages      *)
(***************************************************************************)
NoKey == <<"none">>
NoParams == [none |-> TRUE]
NoData == [items |-> 0, of |-> NoParams]
NoResult == [isSuccess |-> FALSE, data |-> NoData]

\* a query as it is built for a key not in the cache
NewEntry ==
    [status |-> "loading", hasData |-> FALSE, data |-> NoData,
     fetching |-> FALSE, failureCount |-> 0, asked |-> NoParams]

EntryOf(k) == IF k \in DOMAIN cache THEN cache[k] ELSE NewEntry

\* the query client's defaults are set where the client is created, outside
\* the files at hand; the specification gives the failure policy: no retries
QueryRetry == 0

\* a fetch starts: a query without data goes (back) to loading, one with data
\* keeps its status and error while it refetches; asked holds the parameters
\* the query function was called with
Fetched(e, params) ==
    [e EXCEPT !.fetching = TRUE, !.failureCount = 0, !.asked = params,
              !.status = IF e.hasData THEN e.status ELSE "loading"]

\* the observer fetches when it attaches to a query that is not being fetched
\* and has no data or only stale data
WillFetch(e, stale) == ~e.fetching /\ (~e.hasData \/ stale)

Subscribe(k, stale, params) ==
    [kk \in DOMAIN cache \cup {k} |->
        IF kk = k
        THEN (IF WillFetch(EntryOf(k), stale) THEN Fetched(EntryOf(k), params)
              ELSE EntryOf(k))
        ELSE cache[kk]]

(***************************************************************************)
(* AppointmentsPage and PatientsPage                                       *)
(***************************************************************************)
Routes == {"/", "/appointments", "/patients"}
ViewTypes == {"day", "week", "list"}
StatusOptions == {"all", "scheduled"}
ProviderOptions == {"all", "7"}
SearchTerms == {"", "smith"}
SearchTypes == {"all", "name"}

\* the days the appointments page moves over while its queries are followed
ApptDays == {FirstDay, FirstDay + 1}

\* number of appointments a list response may carry
ApptItemCounts == {0, 3}

\* number of patients on a page that has any
PatientsOnPage == 5

perPage == 20

ParseInt(s) == IF s = "7" THEN 7 ELSE 0

ApptKeyOfWithoutStatus(date, view, status, provider) ==
    <<"appointments", toISODate(date), view, "all", provider>>

ApptKeyOf(date, view, status, provider) ==
    <<"appointments", toISODate(date), view, status, provider>>

ApptKey == ApptKeyOf(selectedDate, viewType, statusFilter, providerFilter)

ApptParamsOfAlwaysStatus(date, view, status, provider) ==
    LET r == getDateRangeOf(date, view)
    IN  IF provider # "all"
        THEN [start_date |-> r.start_date, end_date |-> r.end_date,
              status |-> status, provider_id |-> ParseInt(provider)]
        ELSE [start_date |-> r.start_date, end_date |-> r.end_date,
              status |-> status]

\* the queryFn of the appointments query: the parameters it passes on
ApptParamsOf(date, view, status, provider) ==
    LET r == getDateRangeOf(date, view)
    IN  IF status # "all" /\ provider # "all"
        THEN [start_date |-> r.start_date, end_date |-> r.end_date,
              status |-> status, provider_id |-> ParseInt(provider)]
        ELSE IF status # "all"
        THEN [start_date |-> r.start_date, end_date |-> r.end_date,
              status |-> status]
        ELSE IF provider # "all"
        THEN [start_date |-> r.start_date, end_date |-> r.end_date,
              provider_id |-> ParseInt(provider)]
        ELSE [start_date |-> r.start_date, end_date |-> r.end_date]

ApptParams == ApptParamsOf(selectedDate, viewType, statusFilter, providerFilter)

PatientsKeyOf(page, term, type) ==
    <<"patients", [page |-> page, per_page |-> perPage, search |-> term,
                   search_type |-> type]>>

PatientsKey == PatientsKeyOf(currentPage, searchTerm, searchType)

\* the queryFn of the patients query: the parameters it passes on
PatientsParamsOf(page, term, type) ==
    [page |-> page, per_page |-> perPage, search |-> term, search_type |-> type]

PatientsParams == PatientsParamsOf(currentPage, searchTerm, searchType)

CurrentKey ==
    IF route = "/appointments" THEN ApptKey
    ELSE IF route = "/patients" THEN PatientsKey
    ELSE NoKey

CurrentParams ==
    IF route = "/appointments" THEN ApptParams
    ELSE IF route = "/patients" THEN PatientsParams
    ELSE NoParams

QueryFn(k) == IF k[1] = "appointments" THEN "appointmentApi.getAll" ELSE "patientApi.getAll"

\* HTTP requests one run of the query function sends
RequestsOf(k) == Len(ApiRequests(QueryFn(k), NoArgs))

KeepPreviousDataOff(r) == FALSE

\* only the patients query sets keepPreviousData
KeepPreviousData(r) == r = "/patients"

\* what useQuery returns to the page
Result ==
    LET e == EntryOf(CurrentKey)
    IN  IF /\ KeepPreviousData(route)
           /\ ~e.hasData
           /\ prevQueryResult.isSuccess
           /\ e.status # "error"
        THEN [status |-> "success", data |-> prevQueryResult.data,
              isPreviousData |-> TRUE, isFetching |-> e.fetching]
        ELSE [status |-> e.status, data |-> e.data,
              isPreviousData |-> FALSE, isFetching |-> e.fetching]

isLoading == Result.status = "loading"
queryError == Result.status = "error"

RenderPlaceholderAsLoading ==
    IF route = "/" THEN "none"
    ELSE IF queryError THEN "error"
    ELSE IF isLoading \/ Result.isFetching THEN "loading"
    ELSE IF Result.data.items = 0 THEN "empty"
    ELSE "list"

RenderEmptyAsList ==
    IF route = "/" THEN "none"
    ELSE IF queryError THEN "error"
    ELSE IF isLoading THEN "loading"
    ELSE "list"

\* the branch of the page's JSX that is on screen
Render ==
    IF route = "/" THEN "none"
    ELSE IF queryError THEN "error"
    ELSE IF isLoading THEN "loading"
    ELSE IF Result.data.items = 0 THEN "empty"
    ELSE "list"

View == [render |-> Render,
         data |-> IF Render \in {"list", "empty"} THEN Result.data ELSE NoData]

\* kind: what happened; key: the query whose fetch was settled; requests:
\* HTTP requests the step sent; cause: why it sent them
\* fromPage: the page number before the step
NoStep ==
    [kind |-> "none", key |-> NoKey, requests |-> 0, cause |-> "none", fromPage |-> 1]

\* the page re-renders with a new key: the observer moves to that query
Observe(kind, newKey, newParams, prev) ==
    \E stale \in BOOLEAN :
        LET old == CurrentKey
            changed == newKey # old
            fetch == changed /\ WillFetch(EntryOf(newKey), stale)
        IN  /\ Cardinality(DOMAIN cache \cup {newKey}) <= MaxCached
            /\ cache' = IF changed THEN Subscribe(newKey, stale, newParams) ELSE cache
            /\ prevQueryResult' = IF changed THEN prev ELSE prevQueryResult
            /\ lastStep' =
                  [kind |-> kind, key |-> NoKey,
                   requests |-> IF fetch THEN RequestsOf(newKey) ELSE 0,
                   cause |-> IF fetch THEN kind ELSE "none",
                   fromPage |-> currentPage]

\* the observer keeps its last result when the key changes, for
\* keepPreviousData
PreviousResult ==
    IF KeepPreviousData(route)
    THEN [isSuccess |-> Result.status = "success",
          data |-> IF Result.status = "success" THEN Result.data ELSE NoData]
    ELSE NoResult

pageFrame == <<tz, apiVars, utilVars>>

ApptInitial(date) ==
    /\ selectedDate' = date
    /\ viewType' = "day"
    /\ statusFilter' = "all"
    /\ providerFilter' = "all"
    /\ lastNav' = [direction |-> "none", view |-> "day", from |-> date]

PatientsInitial ==
    /\ searchTerm' = ""
    /\ searchType' = "all"
    /\ currentPage' = 1

\* the user follows a sidebar link: the page at hand unmounts and the page
\* of the new route mounts with its initial state
Open(r) ==
    /\ r # route
    /\ route' = r
    /\ PatientsInitial
    /\ \E day \in ApptDays :
          /\ ApptInitial(Now(IF r = "/appointments" THEN day ELSE FirstDay, 12))
          /\ IF r = "/appointments"
             THEN Observe("mount", ApptKeyOf(Now(day, 12), "day", "all", "all"),
                          ApptParamsOf(Now(day, 12), "day", "all", "all"), NoResult)
             ELSE IF r = "/patients"
             THEN Observe("mount", PatientsKeyOf(1, "", "all"),
                          PatientsParamsOf(1, "", "all"), NoResult)
             ELSE /\ cache' = cache
                  /\ prevQueryResult' = NoResult
                  /\ lastStep' = [NoStep EXCEPT !.kind = "leave"]
    /\ UNCHANGED pageFrame

ApptControlsInErrorToo == route = "/appointments"

\* the page returns the error block alone when the query has an error
ApptControls == route = "/appointments" /\ Render # "error"

ApptRerender(kind, date, view, status, provider) ==
    /\ selectedDate' = date
    /\ viewType' = view
    /\ statusFilter' = status
    /\ providerFilter' = provider
    /\ Observe(kind, ApptKeyOf(date, view, status, provider),
               ApptParamsOf(date, view, status, provider), PreviousResult)
    /\ UNCHANGED <<route, searchTerm, searchType, currentPage, pageFrame>>

ClickNavigate(direction) ==
    /\ ApptControls
    /\ LocalDay(newDate(direction)) \in ApptDays
    /\ lastNav' = [direction |-> direction, view |-> viewType, from |-> selectedDate]
    /\ ApptRerender("date", newDate(direction), viewType, statusFilter, providerFilter)

ClickToday ==
    /\ ApptControls
    /\ \E day \in ApptDays :
          /\ lastNav' = [direction |-> "none", view |-> viewType, from |-> Now(day, 12)]
          /\ ApptRerender("date", Now(day, 12), viewType, statusFilter, providerFilter)

ClickView(v) ==
    /\ ApptControls
    /\ lastNav' = [direction |-> "none", view |-> v, from |-> selectedDate]
    /\ ApptRerender("view", selectedDate, v, statusFilter, providerFilter)

SelectStatus(s) ==
    /\ ApptControls
    /\ s # statusFilter
    /\ ApptRerender("filter", selectedDate, viewType, s, providerFilter)
    /\ UNCHANGED lastNav

SelectProvider(p) ==
    /\ ApptControls
    /\ p # providerFilter
    /\ ApptRerender("filter", selectedDate, viewType, statusFilter, p)
    /\ UNCHANGED lastNav

\* the error block of the appointments page holds a Try Again button, the one
\* of the patients page holds none
TryAgainShown == route = "/appointments" /\ Render = "error"

\* the Try Again button of the error state: refetch()
TryAgain ==
    /\ TryAgainShown
    /\ cache' = [cache EXCEPT ![ApptKey] = Fetched(@, ApptParams)]
    /\ lastStep' = [NoStep EXCEPT !.kind = "refetch",
                        !.requests = RequestsOf(ApptKey), !.cause = "refetch"]
    /\ UNCHANGED <<route, dateVars, statusFilter, providerFilter, searchTerm,
                   searchType, currentPage, prevQueryResult, apiVars, utilVars>>

PatientsControls == route = "/patients" /\ Render # "error"

PatientsRerender(kind, page, term, type) ==
    /\ currentPage' = page
    /\ searchTerm' = term
    /\ searchType' = type
    /\ Observe(kind, PatientsKeyOf(page, term, type),
               PatientsParamsOf(page, term, type), PreviousResult)
    /\ UNCHANGED <<route, dateVars, statusFilter, providerFilter, pageFrame>>

handleSearchKeepsPage(term, type) ==
    PatientsRerender("filter", currentPage, term, type)

handleSearch(term, type) ==
    PatientsRerender("filter", 1, term, type)

\* typing in the search box
ChangeSearchTerm(term) ==
    /\ PatientsControls
    /\ term # searchTerm
    /\ handleSearch(term, searchType)

\* choosing a search type
ChangeSearchType(type) ==
    /\ PatientsControls
    /\ type # searchType
    /\ handleSearch(searchTerm, type)

PaginationShownForAnyList == PatientsControls /\ Render = "list"

\* the pagination block is rendered below a non-empty list of more than one
\* page
PaginationShown == PatientsControls /\ Render = "list" /\ Result.data.pages > 1

\* the disabled attribute of the Previous and the Next button
PreviousDisabled == ~Result.data.has_prev
NextDisabled == ~Result.data.has_next

ClickPrevious ==
    /\ PaginationShown
    /\ ~PreviousDisabled
    /\ currentPage - 1 >= MinPage
    /\ PatientsRerender("page", currentPage - 1, searchTerm, searchType)

ClickNext ==
    /\ PaginationShown
    /\ ~NextDisabled
    /\ currentPage + 1 <= MaxPages
    /\ PatientsRerender("page", currentPage + 1, searchTerm, searchType)

\* the page envelope of the list endpoint for one page of a result set of n
\* pages
PaginatedResponse(params, n) ==
    LET p == params.page
    IN  [items |-> IF 1 <= p /\ p <= n THEN PatientsOnPage ELSE 0, of |-> params,
         page |-> p, pages |-> n, has_next |-> p < n, has_prev |-> p > 1]

\* what the backend may answer to the request of query k
ResponsesFor(k) ==
    IF k[1] = "appointments"
    THEN {[items |-> n, of |-> cache[k].asked] : n \in ApptItemCounts}
    ELSE {PaginatedResponse(cache[k].asked, n) : n \in 0..MaxPages}

ResolveStep(k) == [NoStep EXCEPT !.kind = "resolve", !.key = k]

\* the request of a fetch is answered with a page of results
FetchSucceeds(k) ==
    /\ k \in DOMAIN cache
    /\ cache[k].fetching
    /\ \E data \in ResponsesFor(k) :
          cache' = [cache EXCEPT ![k] =
                       [@ EXCEPT !.status = "success", !.hasData = TRUE,
                                 !.data = data, !.fetching = FALSE,
                                 !.failureCount = 0]]
    /\ lastStep' = ResolveStep(k)
    /\ UNCHANGED <<route, dateVars, statusFilter, providerFilter, searchTerm,
                   searchType, currentPage, prevQueryResult, apiVars, utilVars>>

\* the request of a fetch fails: the query retries while it is observed and
\* has retries left, and else ends in error, keeping the data it had
FetchFails(k) ==
    /\ k \in DOMAIN cache
    /\ cache[k].fetching
    /\ IF cache[k].failureCount < QueryRetry /\ k = CurrentKey
       THEN /\ cache' = [cache EXCEPT ![k].failureCount = @ + 1]
            /\ lastStep' = [ResolveStep(k) EXCEPT !.requests = RequestsOf(k),
                                                 !.cause = "retry"]
       ELSE /\ cache' = [cache EXCEPT ![k].status = "error", ![k].fetching = FALSE]
            /\ lastStep' = ResolveStep(k)
    /\ UNCHANGED <<route, dateVars, statusFilter, providerFilter, searchTerm,
                   searchType, currentPage, prevQueryResult, apiVars, utilVars>>

\* a query no page observes and no fetch is running for is collected
Gc(k) ==
    /\ k \in DOMAIN cache
    /\ k # CurrentKey
    /\ ~cache[k].fetching
    /\ cache' = [kk \in DOMAIN cache \ {k} |-> cache[kk]]
    /\ lastStep' = NoStep
    /\ UNCHANGED <<route, dateVars, statusFilter, providerFilter, searchTerm,
                   searchType, currentPage, prevQueryResult, apiVars, utilVars>>

PagesIdle ==
    /\ route = "/"
    /\ statusFilter = "all"
    /\ providerFilter = "all"
    /\ searchTerm = ""
    /\ searchType = "all"
    /\ currentPage = 1
    /\ cache = <<>>
    /\ prevQueryResult = NoResult
    /\ lastStep = NoStep

(***************************************************************************)
(* PatientDetailPage: six queries keyed by the patient id                  *)
(***************************************************************************)
\* NaN, which no id parses to, stands as -1 among the integers
NaN == -1

\* router.query.id: undefined until the router is ready, then the path segment
RouteIds == {NoValue, "abc", "0", "5", "6"}

\* parseInt(id as string)
parseInt(id) ==
    IF id = "0" THEN 0 ELSE IF id = "5" THEN 5 ELSE IF id = "6" THEN 6 ELSE NaN

patientId == parseInt(routerId)

EnabledUnlessNaN(id) == id # NaN

\* enabled: !!patientId
Enabled(id) == id \notin {NaN, 0}

DetailQueries == {"patient", "patient-summary", "patient-appointments",
                  "patient-allergies", "patient-medications", "patient-vital-signs"}

DetailKey(q, id) == <<q, id>>

\* a query of a key that was not used before: no data, fetching when enabled
FreshQuery(id) == [status |-> "loading", fetching |-> Enabled(id)]

patientLoading == detailQ["patient"].status = "loading"
summaryLoading == detailQ["patient-summary"].status = "loading"
patientError == detailQ["patient"].status = "error"
patient == detailQ["patient"].status = "success"

DetailRenderWaitingForSummary ==
    IF patientLoading \/ summaryLoading THEN "loading"
    ELSE IF patientError \/ ~patient THEN "not found"
    ELSE "detail"

\* the branch of the page that is rendered
DetailRender ==
    IF patientLoading THEN "loading"
    ELSE IF patientError \/ ~patient THEN "not found"
    ELSE "detail"

\* the route changes (or the router becomes ready): the keys change with the id
RouteTo(id) ==
    /\ id # routerId
    /\ routerId' = id
    /\ detailQ' = [q \in DetailQueries |-> FreshQuery(parseInt(id))]
    /\ UNCHANGED notDetailVars

DetailFetchSucceeds(q) ==
    /\ detailQ[q].fetching
    /\ detailQ' = [detailQ EXCEPT ![q] = [status |-> "success", fetching |-> FALSE]]
    /\ UNCHANGED <<routerId, notDetailVars>>

DetailFetchFails(q) ==
    /\ detailQ[q].fetching
    /\ detailQ' = [detailQ EXCEPT ![q] = [status |-> "error", fetching |-> FALSE]]
    /\ UNCHANGED <<routerId, notDetailVars>>

DetailIdle ==
    /\ routerId = NoValue
    /\ detailQ = [q \in DetailQueries |-> FreshQuery(NaN)]

(***************************************************************************)
(* debounce(func, delay)                                                   *)
(*                                                                         *)
(* Time is counted in ticks.  A timeout runs at the tick it is due, before *)
(* anything else that happens at that tick.                                *)
(***************************************************************************)
\* the delay, the span of time followed and the number of calls made
Delay == 2
MaxClock == 7
MaxCalls == 3

DebounceArgs == {"a", "b"}

\* timeoutId before the first call, after clearTimeout and after the timeout
\* has run
NoTimer == [due |-> -1]

ScheduleUnlessSet(args) ==
    IF timeoutId # NoTimer THEN timeoutId
    ELSE [due |-> clock + Delay, args |-> args]

\* clearTimeout(timeoutId); timeoutId = setTimeout(() => func.apply(null, args), delay)
Schedule(args) == [due |-> clock + Delay, args |-> args]

TimerDue == timeoutId # NoTimer /\ timeoutId.due <= clock

\* the debounced function is called
DebouncedCall(args) ==
    /\ Len(calls) < MaxCalls
    /\ ~TimerDue
    /\ timeoutId' = Schedule(args)
    /\ calls' = Append(calls, [at |-> clock, args |-> args])
    /\ UNCHANGED <<clock, invoked, notDebounceVars>>

\* the timeout runs: func.apply(null, args)
TimerFires ==
    /\ TimerDue
    /\ invoked' = Append(invoked, [at |-> clock, args |-> timeoutId.args])
    /\ timeoutId' = NoTimer
    /\ UNCHANGED <<clock, calls, notDebounceVars>>

Tick ==
    /\ clock < MaxClock
    /\ ~TimerDue
    /\ clock' = clock + 1
    /\ UNCHANGED <<timeoutId, calls, invoked, notDebounceVars>>

DebounceIdle ==
    /\ clock = 0
    /\ timeoutId = NoTimer
    /\ calls = <<>>
    /\ invoked = <<>>

(***************************************************************************)
(* calculateAge(birthDate)                                                 *)
(***************************************************************************)
\* birth dates as the patient record carries them, a date-only string
\* 'YYYY-MM-DD', and as a Date of local midnight
BirthDays == {[y |-> 1990, m |-> 12, d |-> 1], [y |-> 2000, m |-> 2, d |-> 29],
              [y |-> 1985, m |-> 1, d |-> 1]}
BirthDates == {[kind |-> k, c |-> c] : k \in {"string", "Date"}, c \in BirthDays}

\* the calendar day before c
DayBefore(c) ==
    IF c.d > 1 THEN [c EXCEPT !.d = c.d - 1]
    ELSE LET p == PrevMonth(c.y, c.m)
         IN  [y |-> p.y, m |-> p.m, d |-> DaysInMonth(p.y, p.m)]

\* new Date(birthDate) read through getFullYear, getMonth, getDate: a
\* date-only string is midnight UTC, which west of Greenwich is the evening
\* of the day before; a Date of local midnight is its own day
BirthLocal(b) ==
    IF b.kind = "string" /\ tz < 0 THEN DayBefore(b.c) ELSE b.c

\* new Date() read through getFullYear, getMonth, getDate
TodayLocal(now) == CivilFromDays(LocalDay(now))

calculateAge(b, now) ==
    LET birth == BirthLocal(b)
        today == TodayLocal(now)
        years == today.y - birth.y
        monthDiff == today.m - birth.m
    IN  IF monthDiff < 0 \/ (monthDiff = 0 /\ today.d < birth.d)
        THEN years - 1
        ELSE years

\* a page shows the age of a patient
ShowPatient(b) ==
    /\ b # birthDate
    /\ birthDate' = b
    /\ age' = calculateAge(b, ageNow)
    /\ UNCHANGED <<ageNow, notAgeVars>>

\* half a day later the page is rendered again
HalfDayLater ==
    /\ LocalDay(ageNow + 12) <= LastDay
    /\ ageNow' = ageNow + 12
    /\ age' = calculateAge(birthDate, ageNow')
    /\ UNCHANGED <<birthDate, notAgeVars>>

AgeIdle ==
    /\ ageNow = 0
    /\ birthDate = NoValue
    /\ age = NoValue

(***************************************************************************)
(* formatPhoneNumber(phone)                                                *)
(*                                                                         *)
(* A string is the sequence of its characters.                             *)
(***************************************************************************)
MaxPhoneLen == 12

DigitChars == {"0", "1", "2", "3", "4", "5", "6", "7", "8", "9"}

\* the digits a number is typed with, in the order they are typed
DigitRun == <<"1", "2", "3", "4", "5", "6", "7", "8", "9", "0", "1", "2", "3">>

\* what a number is typed with between its digits
PhoneSeparators == {"-"}

\* what the field holds before the digits are typed: nothing, an opening
\* bracket, a country code
PhoneStarts == {<<>>, <<"(">>, <<"+", "1", " ">>}

\* /\D/ matches every character but the ten digits
IsDigit(c) == c \in DigitChars

\* phone.replace(/\D/g, "")
StripNonDigits(str) == SelectSeq(str, IsDigit)

\* digits.slice(from, to), with to past the end for slice(from)
slice(str, from, to) ==
    SubSeq(str, from + 1, IF to < Len(str) THEN to ELSE Len(str))

formatPhoneNumberOfTenOrMore(str) ==
    LET digits == StripNonDigits(str)
    IN  IF str = <<>> THEN <<>>
        ELSE IF Len(digits) >= 10
        THEN <<"(">> \o slice(digits, 0, 3) \o <<")", " ">> \o slice(digits, 3, 6)
                     \o <<"-">> \o slice(digits, 6, Len(digits))
        ELSE str

formatPhoneNumber(str) ==
    LET digits == StripNonDigits(str)
    IN  IF str = <<>> THEN <<>>
        ELSE IF Len(digits) = 10
        THEN <<"(">> \o slice(digits, 0, 3) \o <<")", " ">> \o slice(digits, 3, 6)
                     \o <<"-">> \o slice(digits, 6, Len(digits))
        ELSE str

NextDigit == DigitRun[Len(StripNonDigits(phone)) + 1]

\* the record's phone number grows by a character and is rendered
TypePhone(c) ==
    /\ Len(phone) < MaxPhoneLen
    /\ Len(StripNonDigits(phone)) < Len(DigitRun)
    /\ phone' = Append(phone, c)
    /\ formatted' = formatPhoneNumber(phone')
    /\ UNCHANGED notPhoneVars

TypeDigit == TypePhone(NextDigit)

TypeSeparator(c) == TypePhone(c)

\* the formatted number is stored as the record's phone number and rendered
FormatAgain ==
    /\ phone # formatted
    /\ phone' = formatted
    /\ formatted' = formatPhoneNumber(phone')
    /\ UNCHANGED notPhoneVars

PhoneIdle ==
    /\ phone = <<>>
    /\ formatted = <<>>

UtilIdle == DetailIdle /\ DebounceIdle /\ AgeIdle /\ PhoneIdle /\ BadgeIdle

(***************************************************************************)
(* The date functions applied to every Date in the bounds                  *)
(***************************************************************************)
InitDate ==
    /\ ApiIdle
    /\ PagesIdle
    /\ UtilIdle
    /\ tz \in TzOffsets
    /\ \E day \in FirstDay..LastDay, hour \in HoursOfDay :
          selectedDate = Now(day, hour)
    /\ viewType = "day"
    /\ lastNav = [direction |-> "none", view |-> "day", from |-> selectedDate]

NextDate ==
    \/ \E direction \in {"prev", "next"} : NavigateDate(direction)
    \/ Today
    \/ \E v \in {"day", "week", "list"} : SetViewType(v)

SpecDate == InitDate /\ [][NextDate]_vars

(***************************************************************************)
(* The API client under any sequence of calls and responses                *)
(***************************************************************************)
DateIdle ==
    /\ tz = 0
    /\ selectedDate = Now(FirstDay, 12)
    /\ viewType = "day"
    /\ lastNav = [direction |-> "none", view |-> "day", from |-> selectedDate]

Init ==
    /\ DateIdle
    /\ PagesIdle
    /\ UtilIdle
    /\ authToken \in {NoToken} \cup Tokens
    /\ location = "/"
    /\ net = [s \in Slots |-> NoRequest]
    /\ lastReq = NoCall
    /\ lastResp = NoResp

Next ==
    \/ \E fn \in ApiFns : ApiCall(fn)
    \/ \E s \in Slots : RespondOk(s)
    \/ \E s \in Slots, error \in ErrorShapes : RespondError(s, error)
    \/ \E t \in Tokens : StoreToken(t)

Spec == Init /\ [][Next]_vars

(***************************************************************************)
(* The list pages over the query cache                                     *)
(***************************************************************************)
InitPages ==
    /\ ApiIdle
    /\ DateIdle
    /\ PagesIdle
    /\ UtilIdle

CachedKeys == DOMAIN cache

NextPages ==
    \/ \E r \in Routes : Open(r)
    \/ \E direction \in {"prev", "next"} : ClickNavigate(direction)
    \/ ClickToday
    \/ \E v \in ViewTypes : ClickView(v)
    \/ \E s \in StatusOptions : SelectStatus(s)
    \/ \E p \in ProviderOptions : SelectProvider(p)
    \/ TryAgain
    \/ \E term \in SearchTerms : ChangeSearchTerm(term)
    \/ \E type \in SearchTypes : ChangeSearchType(type)
    \/ ClickPrevious
    \/ ClickNext
    \/ \E k \in CachedKeys : FetchSucceeds(k)
    \/ \E k \in CachedKeys : FetchFails(k)
    \/ \E k \in CachedKeys : Gc(k)

SpecPages == InitPages /\ [][NextPages]_vars

(***************************************************************************)
(* The patient detail page                                                 *)
(***************************************************************************)
InitDetail ==
    /\ ApiIdle
    /\ DateIdle
    /\ PagesIdle
    /\ UtilIdle

NextDetail ==
    \/ \E id \in RouteIds : RouteTo(id)
    \/ \E q \in DetailQueries : DetailFetchSucceeds(q)
    \/ \E q \in DetailQueries : DetailFetchFails(q)

SpecDetail == InitDetail /\ [][NextDetail]_vars

(***************************************************************************)
(* A debounced function under calls at any times                           *)
(***************************************************************************)
InitDebounce ==
    /\ ApiIdle
    /\ DateIdle
    /\ PagesIdle
    /\ UtilIdle

NextDebounce ==
    \/ \E args \in DebounceArgs : DebouncedCall(args)
    \/ TimerFires
    \/ Tick

SpecDebounce == InitDebounce /\ [][NextDebounce]_vars

(***************************************************************************)
(* calculateAge as the days go by, in every zone                           *)
(***************************************************************************)
InitAge ==
    /\ ApiIdle
    /\ PagesIdle
    /\ DetailIdle
    /\ DebounceIdle
    /\ PhoneIdle
    /\ BadgeIdle
    /\ tz \in TzOffsets
    /\ selectedDate = Now(FirstDay, 12)
    /\ viewType = "day"
    /\ lastNav = [direction |-> "none", view |-> "day", from |-> selectedDate]
    /\ ageNow = Now(FirstDay, 0)
    /\ birthDate \in BirthDates
    /\ age = calculateAge(birthDate, ageNow)

NextAge ==
    \/ \E b \in BirthDates : ShowPatient(b)
    \/ HalfDayLater

SpecAge == InitAge /\ [][NextAge]_vars

(***************************************************************************)
(* formatPhoneNumber as a number is typed                                  *)
(***************************************************************************)
InitPhone ==
    /\ ApiIdle
    /\ DateIdle
    /\ PagesIdle
    /\ DetailIdle
    /\ DebounceIdle
    /\ AgeIdle
    /\ BadgeIdle
    /\ phone \in PhoneStarts
    /\ formatted = formatPhoneNumber(phone)

NextPhone ==
    \/ TypeDigit
    \/ \E c \in PhoneSeparators : TypeSeparator(c)
    \/ FormatAgain

SpecPhone == InitPhone /\ [][NextPhone]_vars

(***************************************************************************)
(* One appointment's badge on the three pages                              *)
(***************************************************************************)
InitBadge ==
    /\ ApiIdle
    /\ DateIdle
    /\ PagesIdle
    /\ DetailIdle
    /\ DebounceIdle
    /\ AgeIdle
    /\ PhoneIdle
    /\ apptStatus \in StatusStrings
    /\ badge = [page \in BadgePages |-> NoBadge]

NextBadge ==
    \/ \E page \in BadgePages : RenderBadge(page)
    \/ \E status \in StatusStrings : StatusChanges(status)

SpecBadge == InitBadge /\ [][NextBadge]_vars

(***************************************************************************)
(* Properties of the date functions                                        *)
(***************************************************************************)
Weekday(c) == (DayNumber(c) + 3) % 7

\* C2: in week view getDateRange returns as start_date the most recent Monday
\* on or before the selected date and as end_date the day 6 days after it.
C2_WeekRangeMondayPlusSix ==
    viewType = "week" =>
        LET r == getDateRange
            s == DayNumber(r.start_date)
            e == DayNumber(r.end_date)
            sel == LocalDay(selectedDate)
        IN  /\ Weekday(r.start_date) = 1
            /\ s <= sel
            /\ sel - s <= 6
            /\ e = s + 6

\* C10: navigateDate moves the selected date by exactly one calendar day in
\* day view and exactly seven in week view, forward for 'next' and backward
\* for 'prev', in the local calendar and in the date string sent to the API.
C10_NavigateShiftsOneOrSevenDays ==
    (lastNav.direction \in {"prev", "next"} /\ lastNav.view \in {"day", "week"}) =>
        LET step == (IF lastNav.view = "day" THEN 1 ELSE 7)
                      * (IF lastNav.direction = "next" THEN 1 ELSE -1)
        IN  /\ LocalDay(selectedDate) = LocalDay(lastNav.from) + step
            /\ DayNumber(toISODate(selectedDate))
                  = DayNumber(toISODate(lastNav.from)) + step
            /\ LocalHour(selectedDate) = LocalHour(lastNav.from)

\* a week step forward out of 2023 into 2024
C10_Witness ==
    /\ lastNav.direction = "next" /\ lastNav.view = "week"
    /\ CivilFromDays(LocalDay(lastNav.from)).y = 2023
       /\ CivilFromDays(LocalDay(selectedDate)).y = 2024
       /\ CivilFromDays(LocalDay(selectedDate)).d < 7

\* the calendar date the page shows for the selected date (toLocaleDateString)
SelectedCalendarDate == CivilFromDays(LocalDay(selectedDate))

\* C11: in day view getDateRange returns start_date and end_date both equal
\* to the selected date, for every selected date.
C11_DayRangeIsSelectedDate ==
    viewType = "day" =>
        /\ getDateRange.start_date = SelectedCalendarDate
        /\ getDateRange.end_date = SelectedCalendarDate

\* C1: a 401 from any API call of any aggregate leaves no stored auth_token
\* and the client at '/login'.
C1_On401TokenClearedAndLogin ==
    (lastResp.kind = "error" /\ StatusIs(lastResp.error, 401)) =>
        /\ authToken = NoToken
        /\ location = "/login"

\* a 401 on a clinical-records call while a token was stored
C1_Witness ==
    /\ lastResp.kind = "error"
    /\ StatusIs(lastResp.error, 401)
    /\ Aggregate(lastResp.fn) = "clinical-records"
    /\ lastResp.tokenBefore = "tokenA"

NoEarlierRule(error) ==
    /\ ~(error.response /\ error.status \in {401, 403, 404})
    /\ ~(error.response /\ error.status >= 500)
    /\ error.code # "ECONNABORTED"

FixedMessageRules ==
    LET e == lastResp.error
    IN  /\ (e.response /\ e.status = 403) => lastResp.toast = "Access forbidden"
        /\ (e.response /\ e.status = 404) => lastResp.toast = "Resource not found"
        /\ (e.response /\ e.status >= 500)
              => lastResp.toast = "Server error. Please try again later."
        /\ (~e.response /\ e.code = "ECONNABORTED")
              => lastResp.toast = "Request timeout. Please try again."

\* C6 as stated: 403, 404, 5xx and timeout get their fixed message, and any
\* other failure shows the backend-provided error message verbatim.
C6_OtherwiseBackendMessage ==
    (lastResp.kind = "error" /\ ~StatusIs(lastResp.error, 401)) =>
        /\ FixedMessageRules
        /\ NoEarlierRule(lastResp.error)
              => lastResp.toast = lastResp.error.dataError

\* C6 as amended: 403, 404, 5xx and timeout get their fixed message; any other
\* failure shows the backend's error message when the response carries a
\* non-empty one, else the error's own message, else 'An error occurred'.
C6_ToastByFirstMatchingRule ==
    (lastResp.kind = "error" /\ ~StatusIs(lastResp.error, 401)) =>
        LET e == lastResp.error
        IN  /\ FixedMessageRules
            /\ (NoEarlierRule(e) /\ e.dataError \notin {NoValue, ""})
                  => lastResp.toast = e.dataError
            /\ (NoEarlierRule(e) /\ e.dataError \in {NoValue, ""} /\ e.message # "")
                  => lastResp.toast = e.message
            /\ (NoEarlierRule(e) /\ e.dataError \in {NoValue, ""} /\ e.message = "")
                  => lastResp.toast = "An error occurred"

\* a 503 took the server-error message although the backend sent its own
C6_Witness ==
    /\ lastResp.kind = "error"
    /\ lastResp.error.status = 503
    /\ lastResp.error.dataError = "Patient has appointments"
    /\ lastResp.toast = "Server error. Please try again later."

\* C7 as stated: every failed response produces a notification.
C7_EveryErrorToasts ==
    lastResp.kind = "error" => lastResp.toast # NoToast

\* C7 as amended: every failed response except a 401 produces a notification;
\* a 401 produces none and sends the client to '/login' instead.
C7_EveryErrorButA401Toasts ==
    lastResp.kind = "error" =>
        /\ ~StatusIs(lastResp.error, 401) => lastResp.toast # NoToast
        /\ StatusIs(lastResp.error, 401)
              => (lastResp.toast = NoToast /\ location = "/login")

\* a 401 was handled without a notification, a timeout with one
C7_Witness401 ==
    /\ lastResp.kind = "error"
    /\ StatusIs(lastResp.error, 401)
    /\ lastResp.toast = NoToast
    /\ location = "/login"

C7_WitnessTimeout ==
    /\ lastResp.kind = "error"
    /\ lastResp.error.code = "ECONNABORTED"
    /\ lastResp.toast = "Request timeout. Please try again."

\* C9: a request goes out with 'Authorization: Bearer <token>' exactly when
\* a non-empty auth_token is stored as it is sent, and with no Authorization
\* header otherwise.
C9_BearerIffTokenStored ==
    lastReq # NoCall =>
        \A s \in lastReq.slots :
            net[s].Authorization =
                (IF authToken \notin {NoToken, ""}
                 THEN <<"Bearer", authToken>> ELSE <<>>)

\* a request sent with no header while the stored token is the empty string
C9_Witness ==
    /\ lastReq # NoCall
    /\ authToken = ""
    /\ \A s \in lastReq.slots : net[s].Authorization = <<>>

C9_WitnessBearer ==
    /\ lastReq # NoCall
    /\ authToken = "tokenB"
    /\ \E s \in lastReq.slots : net[s].Authorization = <<"Bearer", "tokenB">>

(***************************************************************************)
(* The list pages                                                          *)
(***************************************************************************)
Mounted == route # "/"

UserCauses == {"mount", "date", "view", "filter", "page", "refetch"}

ByItems(data) == IF data.items = 0 THEN "empty" ELSE "list"

\* the observer shows the previous key's result in place of missing data
Placeholder ==
    /\ KeepPreviousData(route)
    /\ ~EntryOf(CurrentKey).hasData
    /\ prevQueryResult.isSuccess
    /\ EntryOf(CurrentKey).status # "error"

\* C3 as stated: a list page renders exactly one of loading, list, empty,
\* error, decided by the latest fetch for the current query key alone:
\* loading while it is pending, error when it failed, empty or list by the
\* number of items when it succeeded.
C3_RenderByLatestFetch ==
    Mounted =>
        LET e == EntryOf(CurrentKey)
        IN  /\ Render \in {"loading", "list", "empty", "error"}
            /\ e.fetching => Render = "loading"
            /\ ~e.fetching /\ e.status = "error" => Render = "error"
            /\ ~e.fetching /\ e.status = "success" => Render = ByItems(e.data)

\* C3 amended: a list page renders exactly one of loading, list, empty,
\* error.  When no fetch is pending the latest fetch for the current key
\* decides: error when it failed, empty or list by its item count when it
\* succeeded.  While a fetch is pending the page renders loading only when
\* there is nothing to show: a key with cached data renders that data (or
\* error, when the fetch before failed), and on the patients page a key
\* without data renders the previous key's result.
C3_RenderByShownResult ==
    Mounted =>
        LET e == EntryOf(CurrentKey)
        IN  /\ Render \in {"loading", "list", "empty", "error"}
            /\ CurrentKey \in DOMAIN cache
            /\ ~e.fetching =>
                  \/ e.status = "error" /\ Render = "error"
                  \/ e.status = "success" /\ e.hasData /\ Render = ByItems(e.data)
            /\ e.fetching =>
                  Render = IF e.hasData
                           THEN (IF e.status = "error" THEN "error" ELSE ByItems(e.data))
                           ELSE IF Placeholder THEN ByItems(prevQueryResult.data)
                           ELSE "loading"

\* the next page of the patient list is being fetched and the page at hand
\* is still listed
C3_Witness ==
    /\ route = "/patients"
    /\ EntryOf(CurrentKey).fetching
    /\ Placeholder
    /\ Render = "list"
    /\ lastStep.kind = "page"

\* C4: changing a filter resets the page to 1: after a change of the search
\* term or the search type on the patients page the page number is 1 and the
\* fetch the change issued asks for page 1, whatever page was shown before;
\* the fetch a status or provider change issues on the appointments page
\* names no page at all.
C4_FilterChangeResetsPage ==
    lastStep.kind = "filter" =>
        /\ route = "/patients" =>
              /\ currentPage = 1
              /\ CurrentKey[2].page = 1
              /\ lastStep.requests > 0 => EntryOf(CurrentKey).asked.page = 1
        /\ route = "/appointments" =>
              /\ "page" \notin DOMAIN CurrentParams
              /\ lastStep.requests > 0 =>
                    "page" \notin DOMAIN EntryOf(CurrentKey).asked

\* a filter was changed on page 2 of the patient list and a fetch went out
C4_Witness ==
    /\ lastStep.kind = "filter"
    /\ route = "/patients"
    /\ lastStep.fromPage = 2
    /\ lastStep.requests = 1
    /\ EntryOf(CurrentKey).fetching

\* data of the query itself, not a placeholder, is on screen
ShowsOwnData == Mounted /\ Render \in {"list", "empty"} /\ ~Result.isPreviousData

\* a step that changes the query key
KeyChanges == CurrentKey' # CurrentKey

\* a fetch settles for a key that is not the current one
SettlesElsewhere == lastStep'.kind = "resolve" /\ lastStep'.key # CurrentKey

FetchesInFlightGoOn ==
    \A k \in DOMAIN cache :
        cache[k].fetching => (k \in DOMAIN cache' /\ cache'[k].fetching)

\* C5: a change of the query key does not cancel the fetch in flight for
\* the old key, and the result of that fetch is never shown for the new key:
\* the data a page shows as the result of its key answers a request made with
\* the parameters now selected, and a fetch that settles for another key than
\* the current one changes nothing on screen.
C5_SupersededResultDiscarded ==
    /\ [](ShowsOwnData => Result.data.of = CurrentParams)
    /\ [][SettlesElsewhere => (View' = View /\ CurrentKey' = CurrentKey)]_vars
    /\ [][KeyChanges => FetchesInFlightGoOn]_vars

\* the fetch of a key the page has left has just succeeded, while the page
\* waits for the fetch of its new key
C5_Witness ==
    /\ Mounted
    /\ lastStep.kind = "resolve"
    /\ lastStep.key # CurrentKey
    /\ lastStep.key[1] = CurrentKey[1]
    /\ lastStep.key \in DOMAIN cache
    /\ cache[lastStep.key].status = "success"
    /\ cache[lastStep.key].asked # CurrentParams
    /\ EntryOf(CurrentKey).fetching

C8_WitnessTryAgain ==
    /\ lastStep.kind = "refetch"
    /\ lastStep.requests = 1
    /\ cache[CurrentKey].fetching

\* the fetch for the current key has settled
Settled == Mounted /\ CurrentKey \in DOMAIN cache /\ ~cache[CurrentKey].fetching

\* C12: when the latest fetch of a list page succeeded with zero items the
\* page renders its empty state, neither the loading skeleton nor the error
\* state.
C12_ZeroItemsRendersEmpty ==
    (Settled /\ cache[CurrentKey].status = "success"
             /\ cache[CurrentKey].data.items = 0) =>
        Render = "empty"

\* a search on the patients page has just come back with no patient
C12_Witness ==
    /\ route = "/patients"
    /\ Settled
    /\ lastStep.kind = "resolve"
    /\ lastStep.key = CurrentKey
    /\ cache[CurrentKey].status = "success"
    /\ cache[CurrentKey].data.items = 0
    /\ cache[CurrentKey].data.pages = 0
    /\ Render = "empty"

\* a patient list is on screen whose response has neither a next nor a
\* previous page
ListWithoutNeighbours ==
    /\ route = "/patients"
    /\ Render = "list"
    /\ ~Result.data.has_next
    /\ ~Result.data.has_prev

\* C13 as stated: for a patient list response with has_next = false and
\* has_prev = false the page renders Previous and Next, both disabled.
C13_ControlsRenderedDisabled ==
    ListWithoutNeighbours =>
        (PaginationShown /\ PreviousDisabled /\ NextDisabled)

\* C13 amended: the patients page renders Previous and Next only below a
\* list whose response has more than one page, so for page 1 of 1 it renders
\* no pagination controls; when they are rendered, Previous is disabled
\* exactly when has_prev is false and Next exactly when has_next is false.
C13_ControlsOnlyForSeveralPages ==
    route = "/patients" =>
        /\ PaginationShown => (Render = "list" /\ Result.data.pages > 1)
        /\ Render = "list" =>
              /\ PaginationShown <=> Result.data.pages > 1
              /\ PreviousDisabled <=> ~Result.data.has_prev
              /\ NextDisabled <=> ~Result.data.has_next
        /\ (ListWithoutNeighbours /\ Result.data.pages = 1) => ~PaginationShown

\* page 1 of 1 is listed and no pagination control is rendered
C13_Witness ==
    /\ ListWithoutNeighbours
    /\ Settled
    /\ Result.data.page = 1
    /\ Result.data.pages = 1
    /\ Result.data.items = PatientsOnPage
    /\ ~PaginationShown

\* page 1 of 2 is listed: Previous is disabled and Next is not
C13_WitnessFirstOfTwo ==
    /\ PaginationShown
    /\ Result.data.page = 1
    /\ PreviousDisabled
    /\ ~NextDisabled

\* the page number has just been changed by Previous or Next
PageChanged == lastStep'.kind = "page"

\* after a change of page: no skeleton; a page without data of its own
\* still lists what was listed before, a page with data lists that data
PlaceholderKept ==
    /\ Render' # "loading"
    /\ IF cache'[CurrentKey'].hasData
       THEN Result'.data = cache'[CurrentKey'].data /\ ~Result'.isPreviousData
       ELSE /\ Result'.isPreviousData
            /\ Result'.data = Result.data
            /\ Render' = Render
            /\ cache'[CurrentKey'].fetching

\* the fetch for the page now selected has just succeeded
PageArrived ==
    /\ route = "/patients"
    /\ lastStep.kind = "resolve"
    /\ lastStep.key = CurrentKey
    /\ cache[CurrentKey].status = "success"

\* C14: on the patients page a change of the page number keeps the items on
\* screen as a placeholder, without the loading skeleton, until the fetch for
\* the new page resolves; then the new page's items replace them.
C14_PreviousPageKeptUntilNewArrives ==
    /\ [][PageChanged => PlaceholderKept]_vars
    /\ [](PageArrived =>
            /\ ~Result.isPreviousData
            /\ Result.data.of = CurrentParams
            /\ Result.data.page = currentPage
            /\ Render \in {"list", "empty"})

\* page 2 has arrived and replaced page 1, which was kept while it loaded
C14_Witness ==
    /\ PageArrived
    /\ currentPage = 2
    /\ Result.data.page = 2
    /\ Render = "list"
    /\ prevQueryResult.isSuccess
    /\ prevQueryResult.data.page = 1
    /\ prevQueryResult.data.items = PatientsOnPage

\* the steps by which the user retries or leaves
RetryOrNavigation == {"refetch", "mount", "leave"}

\* the error state is left
LeavesError == Render = "error" /\ Render' # "error"

C16_ErrorStateOffersRetry ==
    (Mounted /\ Render = "error") => TryAgainShown

ActionPath(fn) ==
    IF fn = "appointmentApi.checkIn" THEN "check-in"
    ELSE IF fn = "appointmentApi.start" THEN "start"
    ELSE IF fn = "appointmentApi.complete" THEN "complete"
    ELSE "no-show"

\* the request of an action call names the appointment and the action and
\* carries nothing else but the notes of complete
OnlyIdAndNotes(req, fn, args) ==
    /\ req.method = "POST"
    /\ req.url = <<"/api/v1/appointments", args.id, ActionPath(fn)>>
    /\ req.data \in {NoValue, "null"}
    /\ DOMAIN req.params \subseteq {"notes"}
    /\ DOMAIN req.params = {"notes"} =>
          (fn = "appointmentApi.complete" /\ req.params.notes = args.notes)

\* C17: the client never computes an appointment's next status: checkIn,
\* start, complete and markNoShow send the appointment id (and the notes of
\* complete) and no status; what they return is the appointment as the server
\* sent it, and the card of a listed appointment shows the status of the
\* server's response.
C17_StatusIsServerOwned ==
    /\ lastReq.fn \in ActionFns =>
          \A s \in lastReq.slots : OnlyIdAndNotes(net[s], lastReq.fn, lastReq.args)
    /\ (lastResp.kind = "ok" /\ lastResp.fn \in ActionFns) =>
          lastResp.returned = lastResp.body
    /\ (lastResp.kind = "ok" /\ lastResp.fn = "appointmentApi.getAll") =>
          \A i \in DOMAIN lastResp.returned.items :
              AppointmentCard(lastResp.returned.items[i]).text
                  = ReplaceUnderscore(lastResp.body.items[i].status)

\* complete was called with notes for appointment 8
C17_Witness ==
    /\ lastReq.fn = "appointmentApi.complete"
    /\ lastReq.args = [id |-> 8, notes |-> "seen"]
    /\ \E s \in lastReq.slots : net[s].params = [notes |-> "seen"]

\* the server answered a check-in with an appointment that is still scheduled
C17_WitnessRefused ==
    /\ lastResp.kind = "ok"
    /\ lastResp.fn = "appointmentApi.checkIn"
    /\ lastResp.returned.status = "scheduled"

\* a step that leaves the patient query and the route as they are
OtherQueryStep == detailQ'["patient"] = detailQ["patient"] /\ routerId' = routerId

\* C18: the six fetches of the patient detail page have distinct keys and
\* proceed independently: the page leaves the loading state as soon as the
\* patient fetch resolves, and a pending or failed fetch of one of the other
\* five never puts it into the loading or the 'Patient not found' state.
C18_DetailFollowsPatientQueryOnly ==
    /\ [](\A q1, q2 \in DetailQueries :
            q1 # q2 => DetailKey(q1, patientId) # DetailKey(q2, patientId))
    /\ [](Enabled(patientId) =>
            /\ detailQ["patient"].fetching <=> DetailRender = "loading"
            /\ detailQ["patient"].status = "success" <=> DetailRender = "detail"
            /\ detailQ["patient"].status = "error" <=> DetailRender = "not found")
    /\ [][OtherQueryStep => DetailRender' = DetailRender]_vars

\* the patient has arrived and is shown while one of the other fetches has
\* failed and another is still pending
C18_Witness ==
    /\ Enabled(patientId)
    /\ DetailRender = "detail"
    /\ detailQ["patient-summary"].fetching
    /\ detailQ["patient-allergies"].status = "error"
    /\ detailQ["patient-vital-signs"].status = "success"

\* call j is the last of its burst: no call follows it within the delay
BurstEnd(j) == j = Len(calls) \/ calls[j + 1].at - calls[j].at >= Delay

\* the bursts whose delay has run out
Completed ==
    {j \in DOMAIN calls :
        /\ BurstEnd(j)
        /\ calls[j].at + Delay <= clock
        /\ j < Len(calls) \/ timeoutId = NoTimer}

\* C19: each call of a debounced function cancels the invocation scheduled
\* by the call before, so a burst of calls less than the delay apart leads
\* to exactly one invocation of the wrapped function, with the arguments of
\* the last call, one delay after that call, and the wrapped function is
\* never invoked sooner than one delay after the most recent call.
C19_OneInvocationPerBurst ==
    /\ Len(invoked) = Cardinality(Completed)
    /\ \A i \in DOMAIN invoked :
          \E j \in Completed :
              /\ Cardinality({k \in Completed : k <= j}) = i
              /\ invoked[i] = [at |-> calls[j].at + Delay, args |-> calls[j].args]
    /\ \A i \in DOMAIN invoked :
          \A j \in DOMAIN calls :
              calls[j].at < invoked[i].at => calls[j].at + Delay <= invoked[i].at
    /\ timeoutId # NoTimer =>
          timeoutId = [due |-> calls[Len(calls)].at + Delay,
                       args |-> calls[Len(calls)].args]

\* three calls one tick apart, the last with "b": one invocation, with "b",
\* one delay after the third call
C19_Witness ==
    /\ Len(calls) = 3
    /\ calls[2].at = calls[1].at + 1
    /\ calls[3].at = calls[2].at + 1
    /\ calls[1].args = "a"
    /\ calls[3].args = "b"
    /\ invoked = <<[at |-> calls[3].at + Delay, args |-> "b"]>>

\* full years from the birth date b to the day t
FullYears(b, t) ==
    (t.y - b.y) - (IF t.m < b.m \/ (t.m = b.m /\ t.d < b.d) THEN 1 ELSE 0)

IsBirthday(b, t) == t.m = b.m /\ t.d = b.d

\* a new day has begun for the same patient
NewDay == birthDate' = birthDate /\ LocalDay(ageNow') = LocalDay(ageNow) + 1

SameDay == birthDate' = birthDate /\ LocalDay(ageNow') = LocalDay(ageNow)

\* C20: calculateAge returns the full years from the birth date to today,
\* the difference of the years less one when today's month/day is before the
\* birth month/day; for a fixed day it returns the same value, and as the
\* days go by it grows by exactly one exactly on the birthday.
C20_AgeIsFullYears ==
    /\ [](age = FullYears(birthDate.c, TodayLocal(ageNow)))
    /\ [][SameDay => age' = age]_vars
    /\ [][NewDay => age' = age + (IF IsBirthday(birthDate.c, TodayLocal(ageNow'))
                                  THEN 1 ELSE 0)]_vars

\* the digits of a string, in order
RECURSIVE DigitsOf(_)
DigitsOf(str) ==
    IF str = <<>> THEN <<>>
    ELSE (IF Head(str) \in DigitChars THEN <<Head(str)>> ELSE <<>>) \o DigitsOf(Tail(str))

\* '(XXX) XXX-XXXX' of ten digits
Bracketed(d) ==
    <<"(", d[1], d[2], d[3], ")", " ", d[4], d[5], d[6], "-", d[7], d[8], d[9], d[10]>>

\* C21: formatPhoneNumber returns '(XXX) XXX-XXXX' built from the input's
\* digits in order when the input has exactly 10 digits and the input itself
\* when it has not; applied to its own output it returns that output again.
C21_FormatsTenDigitsOnly ==
    /\ [](formatted = IF Len(DigitsOf(phone)) = 10
                      THEN Bracketed(DigitsOf(phone))
                      ELSE phone)
    /\ [][phone' = formatted => formatted' = formatted]_vars

\* a number of ten digits typed with separators has been formatted, and the
\* formatted number has been formatted again
C21_Witness ==
    /\ Len(DigitsOf(phone)) = 10
    /\ phone = formatted
    /\ phone = Bracketed(DigitRun)

\* C22: on the patients page currentPage stays within 1..pages of the result
\* set, whatever the interleaving of Previous/Next clicks, filter changes and
\* fetch completions, also while the page shown is a placeholder.
C22_CurrentPageWithinPages ==
    route = "/patients" =>
        /\ currentPage >= 1
        /\ PaginationShown => currentPage <= Result.data.pages

Handled401 == lastResp.kind = "error" /\ StatusIs(lastResp.error, 401)

SentWithoutAuthorization ==
    \A s \in lastReq.slots : net[s].Authorization = <<>>

\* C23: after a 401 has been handled no token is stored; none is stored
\* until the login flow stores one; and every request built while none is
\* stored goes out without an Authorization header, so only a request built
\* before the 401 can still carry the old token.
C23_NoAuthorizationAfter401 ==
    /\ [](Handled401 => authToken = NoToken)
    /\ [][authToken = NoToken /\ authToken' # NoToken
             => \E t \in Tokens : StoreToken(t)]_vars
    /\ [](lastReq # NoCall /\ authToken = NoToken => SentWithoutAuthorization)

\* a request sent with no header while one built before the 401 is still in
\* flight with the old token
C23_Witness ==
    /\ authToken = NoToken
    /\ lastReq # NoCall
    /\ SentWithoutAuthorization
    /\ \E s \in Slots \ lastReq.slots :
          net[s] # NoRequest /\ net[s].Authorization = <<"Bearer", "tokenA">>

\* C24: the response interceptor never swallows an error: whichever branch
\* is taken, the caller's promise is rejected with the original error; a
\* successful response reaches the caller unchanged.
C24_ErrorAlwaysRejected ==
    /\ lastResp.kind = "error" =>
            lastResp.settled = "rejected" /\ lastResp.reason = lastResp.error
    /\ lastResp.kind = "ok" =>
            lastResp.settled = "resolved" /\ lastResp.returned = lastResp.body

\* a 401 that redirected to the login page and was rejected to the caller
C24_Witness ==
    /\ Handled401
    /\ location = "/login"
    /\ lastResp.settled = "rejected"
    /\ lastResp.reason = lastResp.error

\* a failure with the generic toast, rejected to the caller
C24_WitnessToast ==
    /\ lastResp.kind = "error"
    /\ lastResp.toast = GenericMessage(lastResp.error)
    /\ lastResp.settled = "rejected"

\* C25: navigateDate('next') followed by navigateDate('prev'), or 'prev'
\* followed by 'next', in day or week view returns the selected date to the
\* calendar day it started from, and the start_date/end_date range to the
\* range it started from.
C25_NextThenPrevReturns ==
    (lastNav.direction \in {"prev", "next"} /\ lastNav.view \in {"day", "week"}
        /\ lastNav.back) =>
        /\ LocalDay(selectedDate) = LocalDay(lastNav.origin)
        /\ getDateRange = getDateRangeOf(lastNav.origin, lastNav.view)

\* a week forward over the end of a month and back again
C25_Witness ==
    /\ lastNav.direction = "prev" /\ lastNav.view = "week" /\ lastNav.back
    /\ CivilFromDays(LocalDay(lastNav.from)).m
           # CivilFromDays(LocalDay(lastNav.origin)).m
    /\ LocalDay(selectedDate) = LocalDay(lastNav.origin)

\* the appointments fetches in flight, by query key
ApptFetches == {k \in DOMAIN cache : k[1] = "appointments" /\ cache[k].fetching}

\* C26: every appointments fetch sends start_date and end_date; it sends
\* status exactly when the status filter is not 'all', then the filter value,
\* and provider_id exactly when the provider filter is not 'all', then the
\* filter value as an integer.
C26_FetchParamsFollowFilters ==
    \A k \in ApptFetches :
        LET sent == cache[k].asked
            status == k[4]
            provider == k[5]
        IN  /\ {"start_date", "end_date"} \subseteq DOMAIN sent
            /\ "status" \in DOMAIN sent <=> status # "all"
            /\ status # "all" => sent.status = status
            /\ "provider_id" \in DOMAIN sent <=> provider # "all"
            /\ provider = "7" => sent.provider_id = 7

\* a fetch for scheduled appointments of provider 7 in flight
C26_Witness ==
    /\ route = "/appointments"
    /\ statusFilter = "scheduled" /\ providerFilter = "7"
    /\ ApptKey \in ApptFetches
    /\ cache[ApptKey].asked.status = "scheduled"
    /\ cache[ApptKey].asked.provider_id = 7

\* a step of the appointments page while it stays mounted
OnAppointments == route = "/appointments" /\ route' = "/appointments"

SameCalendarDate == LocalDay(selectedDate') = LocalDay(selectedDate)

\* C27: in list view navigateDate leaves the selected calendar date as it is;
\* a change of view type, status filter or provider filter never changes it;
\* only prev/next in day or week view and the Today button do.
C27_OnlyNavigationMovesDate ==
    /\ [][OnAppointments /\ lastStep'.kind = "date"
             /\ lastNav'.direction \in {"prev", "next"} /\ lastNav'.view = "list"
             => SameCalendarDate]_vars
    /\ [][OnAppointments /\ lastStep'.kind \in {"view", "filter"}
             => SameCalendarDate]_vars
    /\ [][OnAppointments /\ ~SameCalendarDate
             => /\ lastStep'.kind = "date"
                /\ \/ lastNav'.direction = "none"
                   \/ lastNav'.view \in {"day", "week"}]_vars

\* navigateDate('next') was called in list view
C27_Witness ==
    /\ route = "/appointments"
    /\ viewType = "list"
    /\ lastStep.kind = "date"
    /\ lastNav.direction = "next" /\ lastNav.view = "list"
    /\ LocalDay(selectedDate) = LocalDay(lastNav.from)

\* the route ids that do not parse to a non-zero integer: absent,
\* non-numeric, zero
NotAPatientId == {NoValue, "abc", "0"}

NumberOf(id) == IF id = "5" THEN 5 ELSE 6

\* C28: the patient detail page issues none of its six fetches while the
\* route id does not parse to a non-zero integer; once it does, all six are
\* enabled with that id in their keys.
C28_FetchesOnlyForPatientId ==
    /\ [](routerId \in NotAPatientId =>
            \A q \in DetailQueries : ~detailQ[q].fetching)
    /\ [][routerId' # routerId /\ routerId' \notin NotAPatientId =>
            \A q \in DetailQueries :
                /\ detailQ'[q].fetching
                /\ DetailKey(q, patientId') = <<q, NumberOf(routerId')>>]_vars

\* the router has become ready with id 5 and the six fetches are out
C28_Witness ==
    /\ routerId = "5"
    /\ patientId = 5
    /\ \A q \in DetailQueries : detailQ[q].fetching

\* the page at /patients/0: nothing is fetched
C28_WitnessZero ==
    /\ routerId = "0"
    /\ \A q \in DetailQueries : ~detailQ[q].fetching /\ detailQ[q].status = "loading"

\* the variant a status string is to get, whatever its case
VariantFor(status) ==
    IF status \in {"scheduled", "SCHEDULED"} THEN "scheduled"
    ELSE IF status \in {"confirmed", "Confirmed"} THEN "confirmed"
    ELSE IF status = "cancelled" THEN "cancelled"
    ELSE IF status = "completed" THEN "completed"
    ELSE IF status \in {"in_progress", "IN_PROGRESS", "checked_in", "Checked_In"}
    THEN "in-progress"
    ELSE "default"

\* C29: the three copies of the status-to-variant mapping (dashboard, patient
\* detail, appointment card) give the same variant for every status string,
\* whatever its case: scheduled, confirmed, cancelled and completed map to
\* themselves, in_progress and checked_in to 'in-progress', everything else,
\* no_show, rescheduled and undefined included, to 'default'.
C29_ThreeCopiesAgree ==
    \A page \in BadgePages :
        badge[page] # NoBadge => badge[page] = VariantFor(apptStatus)

\* a status in capitals rendered by all three pages
C29_Witness ==
    /\ apptStatus = "Checked_In"
    /\ \A page \in BadgePages : badge[page] = "in-progress"

\* no_show rendered by all three pages
C29_WitnessDefault ==
    /\ apptStatus = "no_show"
    /\ \A page \in BadgePages : badge[page] = "default"

====
